---- MODULE Spec2Model ----
(***************************************************************************)
(* Evaluation of docs/conf.py, the Sphinx configuration module.  The       *)
(* module body is a straight-line sequence of sixteen statements: thirteen *)
(* assignments of configuration values, two imports and one insertion into *)
(* sys.path.  The state is the module namespace, the interpreter's         *)
(* sys.path, the working directory and the position in the module body.    *)
(***************************************************************************)
EXTENDS Integers, Sequences, FiniteSets, TLC

VARIABLES pc, ns, sys_path, cwd, P, reruns, first_ns

vars == <<pc, ns, sys_path, cwd, P, reruns, first_ns>>

\* ---- bounds ------------------------------------------------------------
MaxPathLen == 2
MaxReruns == 2

\* ---- paths -------------------------------------------------------------
\* A path is a record: abs says whether it starts with '/', parts are its
\* '/'-separated components.
AbsPath(parts) == [abs |-> TRUE, parts |-> parts]
RelPath(parts) == [abs |-> FALSE, parts |-> parts]

\* The literal '../cpp/src' of line 18.
SourceTree == RelPath(<<"..", "cpp", "src">>)

\* Working directories the build can be started in (os.getcwd() results:
\* absolute and normalised).
Cwds == { <<>>, <<"docs">>, <<"repo", "docs">> }

\* Entries sys.path can hold before conf.py runs: '' (the script directory
\* placeholder), a library directory, and the source tree itself.
PathEntries ==
  { RelPath(<<>>), AbsPath(<<"usr", "lib">>), AbsPath(<<"repo", "cpp", "src">>) }

SeqsUpTo(S, n) == UNION { [1..m -> S] : m \in 0..n }

\* posixpath.isabs
isabs(path) == path.abs

\* posixpath.join(a, b): b replaces a when b is absolute, else is appended.
join(a, b) == IF isabs(b) THEN b ELSE [abs |-> a.abs, parts |-> a.parts \o b.parts]

\* posixpath.normpath: drops '' and '.', resolves '..' against the previous
\* component, drops '..' at the root of an absolute path and keeps leading
\* '..' of a relative path.
RECURSIVE normparts(_, _, _)
normparts(initial_slash, comps, new_comps) ==
  IF comps = <<>> THEN new_comps
  ELSE LET comp == Head(comps)
           rest == Tail(comps)
       IN IF comp \in {"", "."} THEN normparts(initial_slash, rest, new_comps)
          ELSE IF \/ comp # ".."
                  \/ (~initial_slash /\ new_comps = <<>>)
                  \/ (new_comps # <<>> /\ new_comps[Len(new_comps)] = "..")
               THEN normparts(initial_slash, rest, Append(new_comps, comp))
          ELSE IF new_comps # <<>>
               THEN normparts(initial_slash, rest, SubSeq(new_comps, 1, Len(new_comps) - 1))
          ELSE normparts(initial_slash, rest, new_comps)

normpath(path) == [abs |-> path.abs, parts |-> normparts(path.abs, path.parts, <<>>)]

\* os.path.abspath(path), evaluated in working directory wd.
abspath(wd, path) ==
  IF ~isabs(path) THEN normpath(join(AbsPath(wd), path)) ELSE normpath(path)

\* list.insert(0, x)
insert0(list, x) == <<x>> \o list

\* ---- namespace ---------------------------------------------------------
\* The module namespace is a mapping from bound names to values; a name
\* that is not bound is not in its domain.
EmptyNamespace == [k \in {} |-> k]

Bind(env, name, val) ==
  [k \in DOMAIN env \cup {name} |-> IF k = name THEN val ELSE env[k]]

ProjectName == "CANDOR Research Documentation"

Done == 16

Init ==
  /\ pc = 0
  /\ ns = EmptyNamespace
  /\ cwd \in Cwds
  /\ P \in SeqsUpTo(PathEntries, MaxPathLen)
  /\ sys_path = P
  /\ reruns = 0
  /\ first_ns = EmptyNamespace

\* An assignment statement `name = val` at position `at` of the module body.
Assign(at, name, val) ==
  /\ pc = at
  /\ pc' = at + 1
  /\ ns' = Bind(ns, name, val)
  /\ UNCHANGED <<sys_path, cwd, P, reruns, first_ns>>

AssignProject == Assign(0, "project", ProjectName)

AssignCopyright == Assign(1, "copyright", "2025, Dalton Burkhart")

AssignAuthor_Slip == Assign(2, "project", "Dalton Burkhart")

AssignAuthor == Assign(2, "author", "Dalton Burkhart")

ImportOs == Assign(3, "os", "<module 'os'>")

ImportSys_Missing ==
  /\ pc = 4
  /\ pc' = 5
  /\ UNCHANGED <<ns, sys_path, cwd, P, reruns, first_ns>>

ImportSys == Assign(4, "sys", "<module 'sys'>")

SysPathInsert_Append ==
  /\ pc = 5
  /\ {"os", "sys"} \subseteq DOMAIN ns
  /\ sys_path' = Append(sys_path, abspath(cwd, SourceTree))
  /\ pc' = 6
  /\ UNCHANGED <<ns, cwd, P, reruns, first_ns>>

SysPathInsert_Guarded ==
  /\ pc = 5
  /\ {"os", "sys"} \subseteq DOMAIN ns
  /\ sys_path' = IF \E i \in 1..Len(sys_path) : sys_path[i] = abspath(cwd, SourceTree)
                 THEN sys_path
                 ELSE insert0(sys_path, abspath(cwd, SourceTree))
  /\ pc' = 6
  /\ UNCHANGED <<ns, cwd, P, reruns, first_ns>>

\* sys.path.insert(0, os.path.abspath('../cpp/src')); the names os and sys
\* must be bound, otherwise the statement raises NameError and evaluation
\* goes no further.
SysPathInsert ==
  /\ pc = 5
  /\ {"os", "sys"} \subseteq DOMAIN ns
  /\ sys_path' = insert0(sys_path, abspath(cwd, SourceTree))
  /\ pc' = 6
  /\ UNCHANGED <<ns, cwd, P, reruns, first_ns>>

AssignExtensions_NoTheme == Assign(6, "extensions", <<"breathe">>)

AssignExtensions == Assign(6, "extensions", <<"breathe", "sphinx_rtd_theme">>)

AssignTemplatesPath == Assign(7, "templates_path", <<"_templates">>)

AssignExcludePatterns ==
  Assign(8, "exclude_patterns", <<"_build", "Thumbs.db", ".DS_Store">>)

AssignBreatheProjects_Renamed == Assign(9, "breathe_projects", ("CANDOR" :> "./output/xml"))

AssignBreatheProjects == Assign(9, "breathe_projects", (ProjectName :> "./output/xml"))

AssignBreatheDefaultProject_Renamed == Assign(10, "breathe_default_project", "CANDOR")

AssignBreatheDefaultProject == Assign(10, "breathe_default_project", ProjectName)

AssignBreatheDefaultMembers == Assign(11, "breathe_default_members", <<"members">>)

AssignHighlightLanguage == Assign(12, "highlight_language", "c++")

AssignMasterDoc == Assign(13, "master_doc", "index")

AssignHtmlTheme_Alabaster == Assign(14, "html_theme", "alabaster")

AssignHtmlTheme == Assign(14, "html_theme", "sphinx_rtd_theme")

AssignHtmlStaticPath == Assign(15, "html_static_path", <<"_static">>)

\* conf.py is evaluated again in the same interpreter: a fresh module
\* namespace, the same sys.path and working directory.
Rerun ==
  /\ pc = Done
  /\ reruns < MaxReruns
  /\ pc' = 0
  /\ ns' = EmptyNamespace
  /\ reruns' = reruns + 1
  /\ first_ns' = IF reruns = 0 THEN ns ELSE first_ns
  /\ UNCHANGED <<sys_path, cwd, P>>

Next ==
  \/ AssignProject
  \/ AssignCopyright
  \/ AssignAuthor
  \/ ImportOs
  \/ ImportSys
  \/ SysPathInsert
  \/ AssignExtensions
  \/ AssignTemplatesPath
  \/ AssignExcludePatterns
  \/ AssignBreatheProjects
  \/ AssignBreatheDefaultProject
  \/ AssignBreatheDefaultMembers
  \/ AssignHighlightLanguage
  \/ AssignMasterDoc
  \/ AssignHtmlTheme
  \/ AssignHtmlStaticPath

NextRerun == Next \/ Rerun

\* One evaluation of conf.py.
Spec == Init /\ [][Next]_vars

\* One evaluation; the interpreter executes the statements one after the
\* other without waiting for anything.
FairSpec == Init /\ [][Next]_vars /\ WF_vars(Next)

\* Repeated evaluation in the same interpreter.
SpecRerun == Init /\ [][NextRerun]_vars

ConfigKeys ==
  { "project", "copyright", "author", "extensions", "templates_path",
    "exclude_patterns", "breathe_projects", "breathe_default_project",
    "breathe_default_members", "highlight_language", "master_doc",
    "html_theme", "html_static_path" }

TypeOK ==
  /\ pc \in 0..Done
  /\ cwd \in Cwds
  /\ reruns \in 0..MaxReruns
  /\ Len(sys_path) >= Len(P)

\* ---- properties --------------------------------------------------------

\* The absolute form of '../cpp/src' against working directory wd, written
\* out directly: the parent of wd (the root is its own parent) followed by
\* cpp/src.
ExpectedSourceTree(wd) ==
  AbsPath((IF wd = <<>> THEN <<>> ELSE SubSeq(wd, 1, Len(wd) - 1)) \o <<"cpp", "src">>)

Evaluated == pc = Done

\* C1: after conf.py has been evaluated, extensions is the ordered list of
\* exactly two plugin names, 'breathe' then 'sphinx_rtd_theme', with no
\* other entry and no duplicate.
C1_ExtensionsExactlyTwo ==
  Evaluated =>
    /\ "extensions" \in DOMAIN ns
    /\ Len(ns["extensions"]) = 2
    /\ ns["extensions"][1] = "breathe"
    /\ ns["extensions"][2] = "sphinx_rtd_theme"
    /\ \A i, j \in 1..Len(ns["extensions"]) :
         ns["extensions"][i] = ns["extensions"][j] => i = j

C1_Witness == Evaluated /\ "extensions" \in DOMAIN ns /\ Len(ns["extensions"]) >= 1

\* C2: after conf.py has been evaluated, breathe_default_project is a key of
\* breathe_projects, the mapping sends it to './output/xml', and the mapping
\* has no other key.
C2_DefaultProjectResolves ==
  Evaluated =>
    /\ {"breathe_projects", "breathe_default_project"} \subseteq DOMAIN ns
    /\ ns["breathe_default_project"] \in DOMAIN ns["breathe_projects"]
    /\ ns["breathe_projects"][ns["breathe_default_project"]] = "./output/xml"
    /\ DOMAIN ns["breathe_projects"] = {ns["breathe_default_project"]}

C2_Witness ==
  /\ Evaluated
  /\ "breathe_projects" \in DOMAIN ns
  /\ Cardinality(DOMAIN ns["breathe_projects"]) = 1

\* C3: every configuration value is set once and never mutated: a step of
\* the evaluation binds at most one new name, and a name that is already
\* bound is neither removed nor given another value by any later step.
C3_SetOnceNeverMutated ==
  [][ /\ \A k \in DOMAIN ns : k \in DOMAIN ns' /\ ns'[k] = ns[k]
      /\ Cardinality(DOMAIN ns' \ DOMAIN ns) <= 1 ]_vars

C3_Witness == Evaluated /\ ConfigKeys \subseteq DOMAIN ns /\ reruns = 0

\* C4: the evaluation of conf.py always reaches its end, and at the end
\* every key of the external-interface table is defined, with
\* master_doc = 'index', highlight_language = 'c++' and
\* breathe_default_members = ['members'].
C4_ReachesEndAllDefined ==
  <>[]( /\ Evaluated
        /\ ConfigKeys \subseteq DOMAIN ns
        /\ ns["master_doc"] = "index"
        /\ ns["highlight_language"] = "c++"
        /\ ns["breathe_default_members"] = <<"members">> )

C4_Witness ==
  /\ Evaluated
  /\ "master_doc" \in DOMAIN ns
  /\ ns["master_doc"] = "index"
  /\ Cardinality(DOMAIN ns) = Cardinality(ConfigKeys) + 2

\* C5: for any initial sys.path P and any working directory, after conf.py
\* is evaluated sys.path has length len(P)+1, its element 0 is the absolute
\* form of '../cpp/src' against the working directory, and the remaining
\* elements are those of P in their original order.
C5_InsertFirstKeepsRest ==
  Evaluated =>
    /\ Len(sys_path) = Len(P) + 1
    /\ sys_path[1] = ExpectedSourceTree(cwd)
    /\ \A i \in 1..Len(P) : sys_path[i + 1] = P[i]

C5_Witness ==
  /\ Evaluated
  /\ Len(P) = 2
  /\ P[1] # P[2]
  /\ cwd # <<>>
  /\ sys_path[1] \notin PathEntries

\* C7: after conf.py has been evaluated, the value of html_theme is a member
\* of the extensions list.
C7_ThemeIsAnExtension ==
  Evaluated =>
    /\ {"html_theme", "extensions"} \subseteq DOMAIN ns
    /\ \E i \in 1..Len(ns["extensions"]) : ns["extensions"][i] = ns["html_theme"]

C7_Witness == Evaluated /\ "html_theme" \in DOMAIN ns /\ ns["html_theme"] = "sphinx_rtd_theme"

\* C8: after conf.py has been evaluated, breathe_default_project equals
\* project, and project is a key of breathe_projects.
C8_DefaultProjectIsProject ==
  Evaluated =>
    /\ {"project", "breathe_default_project", "breathe_projects"} \subseteq DOMAIN ns
    /\ ns["breathe_default_project"] = ns["project"]
    /\ ns["project"] \in DOMAIN ns["breathe_projects"]

C8_Witness == Evaluated /\ "project" \in DOMAIN ns /\ ns["project"] = ProjectName

\* C9: after the n-th evaluation of conf.py in the same interpreter and
\* working directory, sys.path has n more entries than it started with, the
\* first n all the same absolute source-tree path, followed by the original
\* entries; every configuration key holds the value it held after the first
\* evaluation.
C9_RepeatedInsertNotGuarded ==
  Evaluated =>
    LET n == reruns + 1 IN
    /\ Len(sys_path) = Len(P) + n
    /\ isabs(sys_path[1])
    /\ \A i \in 1..n : sys_path[i] = sys_path[1]
    /\ \A i \in 1..Len(P) : sys_path[n + i] = P[i]
    /\ reruns >= 1 =>
         \A k \in ConfigKeys :
           k \in DOMAIN ns /\ k \in DOMAIN first_ns /\ ns[k] = first_ns[k]

C9_Witness ==
  /\ Evaluated
  /\ reruns >= 2
  /\ P # <<>>
  /\ sys_path[1] = sys_path[2]
  /\ \E i \in 1..Len(P) : P[i] = sys_path[1]

====
